---- MODULE Spec2Model ----
(***************************************************************************)
(* A model of the connection lifecycle of deno-redis (src/redis.ts):       *)
(* RedisConnection (connect, authenticate, selectDb, close, reconnect and  *)
(* its setInterval retry loop), the exported connect(), and the RedisImpl  *)
(* methods that forward to the connection and its executor.                *)
(*                                                                         *)
(* io.ts (sendCommand, muxExecutor) is not part of the source at hand; the *)
(* two are modelled from sections 4.2 and 4.3 of the specification.        *)
(*                                                                         *)
(* Granularity: one action is one run of JavaScript between two I/O        *)
(* completions (a dial finishing, a reply arriving, a timer firing, a call *)
(* from the application).  Promise continuations that are only separated   *)
(* by microtask hops (await of a value that is already settled) belong to  *)
(* the same action.                                                        *)
(*                                                                         *)
(* Names of sockets, executors and timer callbacks carry no meaning of     *)
(* their own, so they are reused: a socket that neither the connection nor *)
(* a pending sendCommand holds is forgotten, a sendCommand pending on a    *)
(* dead socket (closed locally or dropped by the peer) refers to socket 0, *)
(* on which every read fails, and a timer callback that has returned gives *)
(* its slot back.                                                          *)
(***************************************************************************)
EXTENDS Integers, Sequences, FiniteSets, TLC

\* ---------------------------------------------------------------- bounds
\* Commands submitted by the application through the client.
MaxCmds == 2
\* Timer callbacks of reconnect() that are pending at the same time.
MaxPending == 2
\* Largest maxRetryCount option tried.
MaxRetryOpt == 1
\* Commands enqueued in one pipeline or transaction.
MaxBatch == 2
\* Channels, and patterns, the application subscribes to.
MaxNames == 2
\* Commands written while the subscriptions are followed.
MaxWire == 3
\* Longest port string tried.
MaxPortLen == 2
\* Commands sent through the wrappers set, zrevrangebylex, zrevrangebyscore.
MaxCalls == 1

\* Connect attempts followed per reconnect() call.  One call alone makes at
\* most maxRetryCount + 1 attempts that have ended plus the pending ones
\* before it gives up; only another call resetting retryCount meanwhile can
\* keep it going beyond that.
MaxAttempts == MaxRetryOpt + MaxPending + 1

Cmds == 1..MaxCmds
Ticks == 1..MaxPending
\* A socket is remembered while the connection holds it or a sendCommand is
\* pending on it.
Socks == 1..(MaxPending + MaxCmds)
\* One executor is made per dial; one is remembered while the connection
\* holds it or a command waits in its queue.
Execs == 1..(MaxCmds + 1)
\* Activations of connectThunkified: 0 is the exported connect(), t > 0 is
\* the timer callback in slot t, which calls connect().
Acts == 0..MaxPending

VARIABLES
  opts,          \* the RedisConnectOptions given to connect()
  isConnected,   \* RedisConnection._isConnected
  isClosed,      \* RedisConnection._isClosed
  maxRetryCount, \* RedisConnection.maxRetryCount
  retryCount,    \* RedisConnection.retryCount
  closer,        \* the socket behind closer / reader / writer (0: not yet dialed)
  executor,      \* the executor object in connection.executor (0: none)
  sockState,     \* per socket: "free" | "open" | "broken" (peer gone) | "closed" (closed locally)
  replyQ,        \* per socket: the requests written whose replies nobody has read yet
  aPc,           \* per activation: "idle" | "dial" | "auth" | "select" | "ping" | "done" | "failed"
  aSock,         \* per activation: the socket its pending sendCommand reads from
  aEp,           \* per timer callback: the command whose reconnect() call armed its timer
  status,        \* per command: "none" | "queued" | "sent" | "probe" | "loop" | "resent" | "done" | "failed"
  exOf,          \* per command: the executor whose queue holds it
  cSock,         \* per command: the socket its pending sendCommand (the command, or reconnect's PING) reads from
  reply,         \* per command: the command whose reply its caller was handed (0: none)
  failKind,      \* per command: why its caller's promise was rejected
  attempts,      \* per command: connect attempts its reconnect() call has started
  batch,         \* per command: what the application submits: [kind: "exec" | "pipeline" | "tx", n: commands enqueued]
  got,           \* per command: the replies its flush() has read so far
  wrote,         \* the handshake commands written on the connection's socket since its dial
  via,           \* per command: how its reconnect() call resolved: "none" | "probe" | "loop"
  name,          \* connection.name is set
  dialed,        \* dialOpts.port, the port every run of thunkifyConnect hands to Deno.connect
  in_pubsub_mode, \* the connection is in pub/sub mode
  channels,      \* channels subscribed to
  patterns,      \* patterns subscribed to
  subPending,    \* the (un)subscription written whose reply has not been read yet
  wire,          \* the commands written since the client was connected
  outcome,       \* the last command submitted through exec: [k: its name, r: "sent" | "rejected"]
  closeResult    \* the last RedisImpl.close(): "none" | "closed" | "already" (BadResource swallowed) | "raised"

vars == <<opts, name, dialed, isConnected, isClosed, maxRetryCount, retryCount, closer,
          executor, sockState, replyQ, aPc, aSock, aEp, status, exOf, cSock,
          reply, failKind, attempts, batch, got, wrote, via, in_pubsub_mode,
          channels, patterns, subPending, wire, outcome, closeResult>>

subVars == <<in_pubsub_mode, channels, patterns, subPending, wire, outcome>>

connVars == <<isConnected, isClosed, maxRetryCount, retryCount, closer, executor>>
cmdVars == <<status, exOf, cSock, reply, failKind, attempts, via>>
actVars == <<aPc, aSock, aEp>>

\* ------------------------------------------------------------- options
\* A JavaScript number: an integer, or NaN.
Num(n) == [kind |-> "int", v |-> n]
NaN == [kind |-> "nan", v |-> 0]
\* No port was handed to Deno.connect.
NoPort == [kind |-> "none", v |-> 0]

\* The shapes of the port option: a number, a string, undefined, or
\* anything else (null).
Port(t, n, s) == [t |-> t, n |-> n, s |-> s]
Undefined == Port("undefined", NaN, <<>>)
Null == Port("null", NaN, <<>>)

\* port = 6379, lines 2287 and 2302.
DefaultPort == 6379

Digits == {"1", "7"}
DigitOf(ch) == IF ch = "1" THEN 1 ELSE 7
Chars == Digits \cup {"a", " "}

RECURSIVE StringsUpTo(_)
StringsUpTo(n) ==
  IF n = 0 THEN {<<>>}
  ELSE LET shorter == StringsUpTo(n - 1)
       IN shorter \cup {Append(s, ch) : s \in shorter, ch \in Chars}

PortShapes ==
  {Undefined, Null}
    \cup {Port("number", Num(n), <<>>) : n \in {DefaultPort, 17}}
    \cup {Port("string", NaN, s) : s \in StringsUpTo(MaxPortLen)}

\* The options the connection is followed under: the port is the default.
OptionSets ==
  [password : BOOLEAN, db : 0..1, maxRetryCount : 0..MaxRetryOpt,
   name : {FALSE}, port : {Port("number", Num(DefaultPort), <<>>)}]

\* Every shape of the options connect() is called with.
ConnectOptionSets ==
  [password : BOOLEAN, db : 0..1, maxRetryCount : 0..MaxRetryOpt,
   name : BOOLEAN, port : PortShapes]

\* parseInt(port): leading white space is skipped, then the longest prefix
\* of decimal digits is the value; NaN if there is none.
RECURSIVE SkipSpaces(_)
SkipSpaces(s) == IF s # <<>> /\ Head(s) = " " THEN SkipSpaces(Tail(s)) ELSE s

RECURSIVE DigitsValue(_, _)
DigitsValue(s, acc) ==
  IF s = <<>> \/ Head(s) \notin Digits THEN acc
  ELSE DigitsValue(Tail(s), 10 * acc + DigitOf(Head(s)))

parseInt(s) ==
  LET t == SkipSpaces(s)
  IN IF t = <<>> \/ Head(t) \notin Digits THEN NaN ELSE Num(DigitsValue(t, 0))

\* parsePortLike, lines 2281-2291.
parsePortLike(p) ==
  CASE p.t = "string" -> [thrown |-> FALSE, n |-> parseInt(p.s)]
    [] p.t = "number" -> [thrown |-> FALSE, n |-> p.n]
    [] p.t = "undefined" -> [thrown |-> FALSE, n |-> Num(DefaultPort)]
    [] OTHER -> [thrown |-> TRUE, n |-> NaN]

\* The default of connect()'s port parameter, line 2302.
PortArg(p) == IF p.t = "undefined" THEN Port("number", Num(DefaultPort), <<>>) ELSE p

\* Number.isSafeInteger, line 2156.
isSafeInteger(n) == n.kind = "int"

\* dialOpts.port of thunkifyConnect (lines 2152-2158), NoPort when it throws.
DialPort(p) ==
  LET r == parsePortLike(PortArg(p))
  IN IF r.thrown \/ ~isSafeInteger(r.n) THEN NoPort ELSE r.n

\* ------------------------------------------------------------ transport
Tag(k, c) == [k |-> k, c |-> c]

Reaches(ss, s) == s # 0 /\ ss[s] = "open"

\* Closer.close() of a Deno.Conn: the socket is released; closing a socket
\* that is already closed throws BadResource.
CloserThrows(ss, s) == s = 0 \/ ss[s] \in {"free", "closed"}

CloseSock(ss, s) ==
  IF s # 0 /\ ss[s] \in {"open", "broken"} THEN [ss EXCEPT ![s] = "closed"] ELSE ss

\* The sockets pending sendCommands read from, once the sockets are ss.
Live(f, ss) == [x \in DOMAIN f |-> IF Reaches(ss, f[x]) THEN f[x] ELSE 0]

\* The sockets that are still of interest, once the sockets are ss: the one
\* the connection holds, and the open ones a sendCommand is pending on.
Held(ss, cl, as, cs) ==
  [s \in Socks |->
     IF s = cl THEN ss[s]
     ELSE IF ss[s] = "open" /\ ((\E a \in Acts : as[a] = s) \/ (\E c \in Cmds : cs[c] = s))
            THEN "open" ELSE "free"]

\* Every action ends here: ss and rq are the sockets and reply streams as
\* the action leaves them.
Sockets(ss, rq) ==
  /\ sockState' = Held(ss, closer', aSock', cSock')
  /\ replyQ' = [s \in Socks |-> IF sockState'[s] = "open" THEN rq[s] ELSE <<>>]

\* sendCommand, first half: the request is written and flushed.  On a socket
\* that is not open the write fails and nothing reaches the wire; the caller
\* learns of it when its promise settles.
Written(rq, ss, s, tag) ==
  IF Reaches(ss, s) THEN [rq EXCEPT ![s] = Append(@, tag)] ELSE rq

\* ------------------------------------------------- pipeline (pipeline.ts)
Kinds == {"exec", "pipeline", "tx"}
\* A batch, flushed as a whole.
Flushes == {"pipeline", "tx"}
\* One command through exec*Reply; quit() is execStatusReply("QUIT") with a
\* finally block (lines 997-1002).
Single == {"exec", "quit"}

BatchTag(k, c, i) == [k |-> k, c |-> c, i |-> i]

\* The commands of submission c as they go on the wire: the one command of
\* an exec; the n commands of a pipeline in the order they were enqueued; for
\* a transaction the same between MULTI and EXEC.
Enqueued(c) == [i \in 1..batch[c].n |-> BatchTag("CMD", c, i)]

\* Variant: the tx flag is ignored, a transaction goes out like a pipeline.
TokensUnwrapped(c) ==
  IF batch[c].kind \in Single THEN <<Tag("CMD", c)>> ELSE Enqueued(c)

Tokens(c) ==
  CASE batch[c].kind \in Single -> <<Tag("CMD", c)>>
    [] batch[c].kind = "pipeline" -> Enqueued(c)
    [] OTHER -> <<BatchTag("MULTI", c, 0)>> \o Enqueued(c) \o <<BatchTag("EXEC", c, 0)>>

\* The whole batch is written and flushed at once.
WrittenAll(rq, ss, s, toks) ==
  IF Reaches(ss, s) THEN [rq EXCEPT ![s] = @ \o toks] ELSE rq

\* Replies submission c still has to read.
Remaining(c) == Len(Tokens(c)) - Len(got[c])

\* The socket submission c reads from once it is dispatched on s; a batch of
\* no commands reads nothing.
ReadOf(c, ss, s) == IF Tokens(c) # <<>> /\ Reaches(ss, s) THEN s ELSE 0

\* The socket a sendCommand started now on s will read from.
ReadFrom(ss, s) == IF Reaches(ss, s) THEN s ELSE 0

\* sendCommand, second half: the outcomes the pending read can have.  On an
\* open socket the reader takes the next reply in the stream, which the
\* server either answered normally or with an Error reply; on any other
\* socket the read fails with a transport error.
Outcomes(s) == IF s # 0 THEN {"ok", "err"} ELSE {"transport"}

Consumed(rq, s) == IF s # 0 /\ rq[s] # <<>> THEN [rq EXCEPT ![s] = Tail(@)] ELSE rq

NextReply(rq, s) == IF s # 0 /\ rq[s] # <<>> THEN Head(rq[s]) ELSE Tag("NONE", 0)

\* ----------------------------------------------------- pub/sub (pubsub.ts)
Names == 1..MaxNames

\* No (un)subscription awaits its reply.
NoSub == [k |-> "none", x |-> {}]

\* Nothing was submitted through exec yet.
NoCommand == [k |-> "none", r |-> "none"]

\* The commands the executor lets through in pub/sub mode.
PubSubCommands == {"SUBSCRIBE", "UNSUBSCRIBE", "PSUBSCRIBE", "PUNSUBSCRIBE", "PING", "QUIT"}

\* connect() has returned a RedisImpl (line 2316).
ClientExists == aPc[0] = "done"

\* ------------------------------------------------------------------ Init
Init ==
  /\ opts \in OptionSets
  /\ name = FALSE
  /\ dialed = NoPort
  /\ isConnected = FALSE
  /\ isClosed = FALSE
  /\ maxRetryCount = 0
  /\ retryCount = 0
  /\ closer = 0
  /\ executor = 0
  /\ sockState = [s \in Socks |-> "free"]
  /\ replyQ = [s \in Socks |-> <<>>]
  /\ aPc = [a \in Acts |-> "idle"]
  /\ aSock = [a \in Acts |-> 0]
  /\ aEp = [a \in Acts |-> 0]
  /\ status = [c \in Cmds |-> "none"]
  /\ exOf = [c \in Cmds |-> 0]
  /\ cSock = [c \in Cmds |-> 0]
  /\ reply = [c \in Cmds |-> 0]
  /\ failKind = [c \in Cmds |-> "none"]
  /\ attempts = [c \in Cmds |-> 0]
  /\ batch = [c \in Cmds |-> [kind |-> "exec", n |-> 0]]
  /\ got = [c \in Cmds |-> <<>>]
  /\ wrote = {}
  /\ via = [c \in Cmds |-> "none"]
  /\ in_pubsub_mode = FALSE
  /\ channels = {} /\ patterns = {}
  /\ subPending = NoSub
  /\ wire = <<>>
  /\ outcome = NoCommand
  /\ closeResult = "none"

\* ------------------------------------------------- RedisConnection.close
\* close(): lines 2216-2224.  Flags first, then closer.close(); a
\* BadResource from an already closed socket is swallowed, anything else is
\* rethrown.  Deno.Conn.close() throws nothing but BadResource.
\* Variant: close() rethrows the BadResource of an already closed socket.
RethrowsBadResource == FALSE

SwallowsBadResource == TRUE

\* What a call of close() comes to, with the sockets as they are.
CloseOutcome ==
  IF ~CloserThrows(sockState, closer) THEN "closed"
  ELSE IF SwallowsBadResource THEN "already" ELSE "raised"

\* Variant: the catch block around AUTH and SELECT rethrows without closing.
CatchRethrowsOnly == FALSE

\* catch (error) { this.close(); throw error; } around AUTH and SELECT,
\* lines 2179-2182.
CatchCloses == TRUE

\* ------------------------------------------------------ thunkifyConnect
\* The flags as set right after the dial, before AUTH / SELECT.
ConnectedAfterDial == TRUE
ClosedAfterDial == FALSE

\* if (options.maxRetryCount) this.maxRetryCount = options.maxRetryCount
MaxRetryAfterDial == IF opts.maxRetryCount # 0 THEN opts.maxRetryCount ELSE maxRetryCount

\* What a connect does next once the dial / AUTH / SELECT has succeeded.  The
\* exported connect() (activation 0) then returns the client; a timer
\* callback goes on to its PING.
Finished(a) == IF a = 0 THEN "done" ELSE "ping"
AfterSelect(a) == Finished(a)
AfterAuth(a) == IF opts.db # 0 THEN "select" ELSE Finished(a)
\* Variant: AUTH is sent whether or not a password is configured.
AlwaysAuth(a) == "auth"

AfterDial(a) == IF opts.password THEN "auth" ELSE AfterAuth(a)

Exchanging == {"auth", "select", "ping"}
TagOf(pc) == CASE pc = "auth" -> Tag("AUTH", 0)
               [] pc = "select" -> Tag("SELECT", 0)
               [] OTHER -> Tag("PING", 0)

\* The handshake commands on the wire of socket s once the command of
\* position pc has been sent through this.writer: w and, if the write
\* reaches the peer, AUTH or SELECT.
Recorded(w, ss, s, pc) ==
  IF pc \in {"auth", "select"} /\ Reaches(ss, s) THEN w \cup {TagOf(pc).k} ELSE w

\* The activation has ended: the exported connect() threw, or the timer
\* callback returned.
Ended(a) == IF a = 0 THEN "failed" ELSE "idle"

FreshSock(ss) == CHOOSE s \in Socks : ss[s] = "free" /\ \A r \in 1..(s-1) : ss[r] # "free"
FreshTick == CHOOSE t \in Ticks : aPc[t] = "idle" /\ \A r \in 1..(t-1) : aPc[r] # "idle"
UsedExecs == {exOf[c] : c \in Cmds}
FreshExec == CHOOSE e \in Execs : e \notin UsedExecs /\ \A r \in 1..(e-1) : r \in UsedExecs

\* Variant: the finally block does not count the attempt.
NotCounted(n) == n

\* retryCount++ of the timer callback's finally block.
Incremented(n) == n + 1

\* if (options.name) this.name = options.name, line 2163.
NameAfterDial == IF opts.name THEN TRUE ELSE name

\* The exported connect(): new RedisConnection(...), then connection.connect():
\* thunkifyConnect runs up to the dial, or throws on the port.
ConnectCall ==
  /\ aPc[0] = "idle"
  /\ dialed' = DialPort(opts.port)
  /\ aPc' = [aPc EXCEPT ![0] = IF DialPort(opts.port) = NoPort THEN "failed" ELSE "dial"]
  /\ UNCHANGED <<opts, name, subVars, batch, got, wrote, connVars, aSock, aEp, cmdVars, closeResult>>
  /\ Sockets(sockState, replyQ)

\* Deno.connect / Deno.connectTls rejects.
DialFail(a) ==
  /\ aPc[a] = "dial"
  /\ aPc' = [aPc EXCEPT ![a] = Ended(a)]
  /\ aEp' = [aEp EXCEPT ![a] = 0]
  /\ retryCount' = IF a = 0 THEN retryCount ELSE Incremented(retryCount)
  /\ UNCHANGED <<opts, name, dialed, subVars, batch, got, wrote, isConnected, isClosed, maxRetryCount, closer, executor,
                 aSock, cmdVars, closeResult>>
  /\ Sockets(sockState, replyQ)

\* Deno.connect resolves: lines 2162-2185 up to the first pending sendCommand.
DialOk(a) ==
  /\ aPc[a] = "dial"
  /\ LET s == FreshSock(Held(sockState, 0, aSock, cSock))
         ss == [sockState EXCEPT ![s] = "open"]
         pc == AfterDial(a)
     IN /\ maxRetryCount' = MaxRetryAfterDial
        /\ closer' = s
        /\ executor' = FreshExec
        /\ isClosed' = ClosedAfterDial
        /\ isConnected' = ConnectedAfterDial
        /\ aPc' = [aPc EXCEPT ![a] = pc]
        /\ aSock' = [aSock EXCEPT ![a] = IF pc \in Exchanging THEN s ELSE 0]
        /\ wrote' = Recorded({}, ss, s, pc)
        /\ name' = NameAfterDial
        /\ UNCHANGED <<opts, dialed, subVars, batch, got, retryCount, aEp, cmdVars, closeResult>>
        /\ Sockets(ss, IF pc \in Exchanging THEN Written(replyQ, ss, s, TagOf(pc)) ELSE replyQ)

\* The reply to AUTH or SELECT arrives and is a success: the next step is
\* sent through this.writer / this.reader as they are now.
HandshakeOk(a) ==
  /\ aPc[a] \in {"auth", "select"}
  /\ "ok" \in Outcomes(aSock[a])
  /\ LET rq == Consumed(replyQ, aSock[a])
         pc == IF aPc[a] = "auth" THEN AfterAuth(a) ELSE AfterSelect(a)
     IN /\ aPc' = [aPc EXCEPT ![a] = pc]
        /\ aSock' = [aSock EXCEPT ![a] = IF pc \in Exchanging THEN ReadFrom(sockState, closer) ELSE 0]
        /\ wrote' = Recorded(wrote, sockState, closer, pc)
        /\ UNCHANGED <<opts, name, dialed, subVars, batch, got, connVars, aEp, cmdVars, closeResult>>
        /\ Sockets(sockState, IF pc \in Exchanging THEN Written(rq, sockState, closer, TagOf(pc)) ELSE rq)

\* AUTH or SELECT fails (an Error reply or a transport error): the catch
\* block calls this.close() and rethrows; a timer callback swallows the
\* error and counts the attempt.
HandshakeFail(a) ==
  /\ aPc[a] \in {"auth", "select"}
  /\ \E o \in Outcomes(aSock[a]) : o # "ok"
  /\ LET ss == IF CatchCloses THEN CloseSock(sockState, closer) ELSE sockState
     IN /\ isClosed' = (CatchCloses \/ isClosed)
        /\ isConnected' = (~CatchCloses /\ isConnected)
        /\ aSock' = Live([aSock EXCEPT ![a] = 0], ss)
        /\ cSock' = Live(cSock, ss)
        /\ aPc' = [aPc EXCEPT ![a] = Ended(a)]
        /\ aEp' = [aEp EXCEPT ![a] = 0]
        /\ retryCount' = IF a = 0 THEN retryCount ELSE Incremented(retryCount)
        /\ UNCHANGED <<opts, name, dialed, subVars, batch, got, wrote, maxRetryCount, closer, executor, status, exOf, reply,
                       failKind, attempts, via, closeResult>>
        /\ Sockets(ss, Consumed(replyQ, aSock[a]))

\* ------------------------------------------------- executor (muxExecutor)
\* muxExecutor(this, this.maxRetryCount > 0), line 2169: the executor
\* retries through reconnect() only when maxRetryCount is positive.
AttemptReconnect == maxRetryCount > 0

Pending == {"queued", "sent", "probe", "loop", "resent"}

\* The queue of executor e: the commands it accepted and has not settled.
QueueOf(e) == {d \in Cmds : exOf[d] = e /\ status[d] \in Pending}

\* The command dispatched after c settles: the oldest one queued behind it.
NextOf(c) ==
  LET q == {d \in Cmds : d # c /\ exOf[d] = exOf[c] /\ status[d] = "queued"}
  IN IF q = {} THEN 0 ELSE CHOOSE d \in q : \A x \in q : d <= x

\* Command c settles (resolved with the reply to command rep, or rejected
\* for the reason fk); the executor shifts its queue and dispatches the next
\* command through connection.writer / connection.reader as they are now.
\* cs and ss are the pending reads and the sockets by then.
Settle(c, st, fk, rep, cs, ss) ==
  LET n == NextOf(c)
  IN /\ status' = [d \in Cmds |-> IF d = c THEN st ELSE IF d = n THEN "sent" ELSE status[d]]
     /\ cSock' = [d \in Cmds |-> IF d = c THEN 0 ELSE IF d = n THEN ReadOf(n, ss, closer) ELSE cs[d]]
     /\ reply' = [reply EXCEPT ![c] = rep]
     /\ failKind' = [failKind EXCEPT ![c] = fk]
     /\ exOf' = [exOf EXCEPT ![c] = 0]
     /\ attempts' = [attempts EXCEPT ![c] = 0]
     /\ UNCHANGED via

\* The reply streams once that next command is written.
SettleQ(c, rq, ss) ==
  IF NextOf(c) = 0 THEN rq ELSE WrittenAll(rq, ss, closer, Tokens(NextOf(c)))

\* The failed command is submitted again once reconnect() has resolved.
Resubmit(c, how, ss) ==
  /\ status' = [status EXCEPT ![c] = "resent"]
  /\ via' = [via EXCEPT ![c] = how]
  /\ cSock' = [cSock EXCEPT ![c] = ReadFrom(ss, closer)]
  /\ attempts' = [attempts EXCEPT ![c] = 0]
  /\ UNCHANGED <<exOf, reply, failKind>>

ResubmitQ(c, rq, ss) == WrittenAll(rq, ss, closer, Tokens(c))

\* RedisImpl.exec*Reply: this.connection.exec(command, ...args), that is
\* this.connection.executor.exec: the command joins the queue of the executor
\* the connection holds now, and is dispatched at once if that queue was empty.
Submit(c) ==
  /\ ClientExists
  /\ status[c] = "none"
  /\ \A d \in Cmds : d < c => status[d] # "none"
  /\ exOf' = [exOf EXCEPT ![c] = executor]
  /\ UNCHANGED <<opts, name, dialed, subVars, batch, got, wrote, connVars, actVars, reply, failKind, attempts, via, closeResult>>
  /\ IF QueueOf(executor) = {}
       THEN /\ status' = [status EXCEPT ![c] = "sent"]
            /\ cSock' = [cSock EXCEPT ![c] = ReadOf(c, sockState, closer)]
            /\ Sockets(sockState, WrittenAll(replyQ, sockState, closer, Tokens(c)))
       ELSE /\ status' = [status EXCEPT ![c] = "queued"]
            /\ UNCHANGED cSock
            /\ Sockets(sockState, replyQ)

\* The reply is read and handed to the caller.
CmdOk(c) ==
  /\ status[c] \in {"sent", "resent"}
  /\ batch[c].kind = "exec"
  /\ "ok" \in Outcomes(cSock[c])
  /\ Settle(c, "done", "none", NextReply(replyQ, cSock[c]).c, cSock, sockState)
  /\ UNCHANGED <<opts, name, dialed, subVars, batch, got, wrote, connVars, actVars, closeResult>>
  /\ Sockets(sockState, SettleQ(c, Consumed(replyQ, cSock[c]), sockState))

\* Variant: an Error reply is handled like a dead transport, the connection
\* is torn down.
ErrorReplyTearsDown(c) ==
  /\ status[c] \in {"sent", "resent"}
  /\ batch[c].kind = "exec"
  /\ "err" \in Outcomes(cSock[c])
  /\ isClosed' = TRUE
  /\ isConnected' = FALSE
  /\ LET ss == CloseSock(sockState, closer)
     IN /\ Settle(c, "failed", "server", 0, Live(cSock, ss), ss)
        /\ aSock' = Live(aSock, ss)
        /\ UNCHANGED <<opts, name, dialed, subVars, batch, got, wrote, maxRetryCount, retryCount, closer, executor, aPc, aEp,
                       closeResult>>
        /\ Sockets(ss, SettleQ(c, Consumed(replyQ, cSock[c]), ss))

\* An Error reply: surfaced to the caller, no reconnect.
CmdServerError(c) ==
  /\ status[c] \in {"sent", "resent"}
  /\ batch[c].kind = "exec"
  /\ "err" \in Outcomes(cSock[c])
  /\ Settle(c, "failed", "server", 0, cSock, sockState)
  /\ UNCHANGED <<opts, name, dialed, subVars, batch, got, wrote, connVars, actVars, closeResult>>
  /\ Sockets(sockState, SettleQ(c, Consumed(replyQ, cSock[c]), sockState))

\* A transport failure that is surfaced: retries are off, or this was the
\* resubmission already.
CmdTransportError(c) ==
  /\ status[c] \in {"sent", "resent"}
  /\ "transport" \in Outcomes(cSock[c])
  /\ batch[c].kind # "quit"
  /\ status[c] = "resent" \/ ~AttemptReconnect \/ batch[c].kind \in Flushes
  /\ Remaining(c) > 0
  /\ Settle(c, "failed", "transport", 0, cSock, sockState)
  /\ UNCHANGED <<opts, name, dialed, subVars, batch, got, wrote, connVars, actVars, closeResult>>
  /\ Sockets(sockState, SettleQ(c, replyQ, sockState))

\* A transport failure with retries on: the executor awaits
\* connection.reconnect(), which starts by probing with PING (lines
\* 2233-2239; readerAsBuffer.peek(1) returns a promise, which is never
\* falsy, so the "Client is closed." guard lets every call through).
CmdReconnect(c) ==
  /\ status[c] = "sent"
  /\ batch[c].kind \in Single
  /\ "transport" \in Outcomes(cSock[c])
  /\ AttemptReconnect
  /\ status' = [status EXCEPT ![c] = "probe"]
  /\ cSock' = [cSock EXCEPT ![c] = ReadFrom(sockState, closer)]
  /\ UNCHANGED <<opts, name, dialed, subVars, batch, got, wrote, connVars, actVars, exOf, reply, failKind, attempts, via, closeResult>>
  /\ Sockets(sockState, Written(replyQ, sockState, closer, Tag("PING", 0)))

\* flush() reads the next reply of its batch; with the last one it resolves
\* with the list of replies and the executor dispatches the next submission.
FlushRead(c) ==
  /\ status[c] = "sent"
  /\ batch[c].kind \in Flushes
  /\ Remaining(c) > 0
  /\ "ok" \in Outcomes(cSock[c])
  /\ got' = [got EXCEPT ![c] = Append(@, NextReply(replyQ, cSock[c]))]
  /\ UNCHANGED <<opts, name, dialed, subVars, batch, wrote, connVars, actVars, closeResult>>
  /\ IF Remaining(c) = 1
       THEN /\ Settle(c, "done", "none", c, cSock, sockState)
            /\ Sockets(sockState, SettleQ(c, Consumed(replyQ, cSock[c]), sockState))
       ELSE /\ UNCHANGED cmdVars
            /\ Sockets(sockState, Consumed(replyQ, cSock[c]))

\* flush() of a batch of no commands writes nothing, reads nothing and
\* resolves with the empty list.
FlushEmpty(c) ==
  /\ status[c] = "sent"
  /\ batch[c].kind \in Flushes
  /\ Tokens(c) = <<>>
  /\ Settle(c, "done", "none", c, cSock, sockState)
  /\ UNCHANGED <<opts, name, dialed, subVars, batch, got, wrote, connVars, actVars, closeResult>>
  /\ Sockets(sockState, SettleQ(c, replyQ, sockState))

\* ---------------------------------------------------- RedisImpl.quit
\* The finally block of quit(), line 1000: this.connection?.close() (lines
\* 2216-2224) once the QUIT exchange has settled, before quit()'s own promise
\* settles.  st, fk and rep are how the exchange ended, rq the reply streams
\* it leaves.
QuitSettled(c, st, fk, rep, rq) ==
  /\ isClosed' = TRUE
  /\ isConnected' = FALSE
  /\ LET ss == CloseSock(sockState, closer)
     IN /\ Settle(c, st, fk, rep, Live(cSock, ss), ss)
        /\ aSock' = Live(aSock, ss)
        /\ UNCHANGED <<opts, name, dialed, subVars, batch, got, wrote, maxRetryCount, retryCount, closer,
                       executor, aPc, aEp, closeResult>>
        /\ Sockets(ss, SettleQ(c, rq, ss))

\* QUIT is answered.
QuitOk(c) ==
  /\ status[c] \in {"sent", "resent"}
  /\ batch[c].kind = "quit"
  /\ "ok" \in Outcomes(cSock[c])
  /\ QuitSettled(c, "done", "none", NextReply(replyQ, cSock[c]).c, Consumed(replyQ, cSock[c]))

\* Variant: close() is called in a then block, after a success only.
QuitErrorLeavesOpen(c) ==
  /\ status[c] \in {"sent", "resent"}
  /\ batch[c].kind = "quit"
  /\ "err" \in Outcomes(cSock[c])
  /\ Settle(c, "failed", "server", 0, cSock, sockState)
  /\ UNCHANGED <<opts, name, dialed, subVars, batch, got, wrote, connVars, actVars, closeResult>>
  /\ Sockets(sockState, SettleQ(c, Consumed(replyQ, cSock[c]), sockState))

\* QUIT is answered with an Error reply.
QuitServerError(c) ==
  /\ status[c] \in {"sent", "resent"}
  /\ batch[c].kind = "quit"
  /\ "err" \in Outcomes(cSock[c])
  /\ QuitSettled(c, "failed", "server", 0, Consumed(replyQ, cSock[c]))

\* The QUIT exchange fails on the transport and is not, or no longer, retried.
QuitTransportError(c) ==
  /\ status[c] \in {"sent", "resent"}
  /\ batch[c].kind = "quit"
  /\ "transport" \in Outcomes(cSock[c])
  /\ status[c] = "resent" \/ ~AttemptReconnect
  /\ QuitSettled(c, "failed", "transport", 0, replyQ)

\* --------------------------------------------- RedisConnection.reconnect
\* Variant: the retry limit is tested with >=.
RetryReached(n, max) == n >= max

\* if (this.retryCount > this.maxRetryCount), line 2247.
RetryExceeded(n, max) == n > max

\* Variant: a successful probe leaves the connection marked disconnected.
DisconnectedAfterProbe == FALSE

\* this._isConnected = true after the probe, line 2240.
ConnectedAfterProbe == TRUE

\* this.retryCount = 0, line 2264.
RetryAfterSuccess == 0

\* The timer callbacks of an interval that was cleared have nothing left to
\* resolve, reject or clear.
Detached(ep, c) == [a \in Acts |-> IF ep[a] = c THEN 0 ELSE ep[a]]

\* The PING probe succeeds (lines 2239-2240): the connection is marked
\* connected, reconnect() resolves and the executor resubmits the command.
ProbeOk(c) ==
  /\ status[c] = "probe"
  /\ "ok" \in Outcomes(cSock[c])
  /\ isConnected' = ConnectedAfterProbe
  /\ Resubmit(c, "probe", sockState)
  /\ UNCHANGED <<opts, name, dialed, subVars, batch, got, wrote, isClosed, maxRetryCount, retryCount, closer, executor,
                 actVars, closeResult>>
  /\ Sockets(sockState, ResubmitQ(c, Consumed(replyQ, cSock[c]), sockState))

\* The PING probe fails (lines 2241-2245): the connection is marked
\* disconnected and the retry timer is armed.
ProbeFail(c) ==
  /\ status[c] = "probe"
  /\ \E o \in Outcomes(cSock[c]) : o # "ok"
  /\ isConnected' = FALSE
  /\ status' = [status EXCEPT ![c] = "loop"]
  /\ cSock' = [cSock EXCEPT ![c] = 0]
  /\ UNCHANGED <<opts, name, dialed, subVars, batch, got, wrote, isClosed, maxRetryCount, retryCount, closer, executor,
                 actVars, exOf, reply, failKind, attempts, via, closeResult>>
  /\ Sockets(sockState, Consumed(replyQ, cSock[c]))

\* The timer of command c's reconnect() call fires (lines 2246-2255, up to
\* the dial).  Over the limit: close, clearInterval, reject; there is no
\* return, so the callback goes on.  Then close() and connect(), which
\* starts a dial.  A firing does not wait for an earlier callback that is
\* still pending.
TickFire(c) ==
  /\ status[c] = "loop"
  /\ \E t \in Ticks : aPc[t] = "idle"
  /\ attempts[c] < MaxAttempts \/ RetryExceeded(retryCount, maxRetryCount)
  /\ LET t == FreshTick
         over == RetryExceeded(retryCount, maxRetryCount)
         ss == CloseSock(sockState, closer)
     IN /\ isClosed' = TRUE
        /\ isConnected' = FALSE
        /\ aSock' = Live(aSock, ss)
        /\ aPc' = [aPc EXCEPT ![t] = "dial"]
        /\ UNCHANGED <<opts, name, dialed, subVars, batch, got, wrote, maxRetryCount, retryCount, closer, executor, closeResult>>
        /\ IF over
             THEN /\ Settle(c, "failed", "reconnect", 0, Live(cSock, ss), ss)
                  /\ aEp' = Detached(aEp, c)
                  /\ Sockets(ss, SettleQ(c, replyQ, ss))
             ELSE /\ cSock' = Live(cSock, ss)
                  /\ aEp' = [aEp EXCEPT ![t] = c]
                  /\ attempts' = [attempts EXCEPT ![c] = @ + 1]
                  /\ UNCHANGED <<status, exOf, reply, failKind, via>>
                  /\ Sockets(ss, replyQ)

\* The PING sent after a callback's connect succeeds (lines 2256-2266, then
\* the finally block): connected, retryCount reset, clearInterval, resolve,
\* and retryCount++ on the way out.
PingOk(t) ==
  /\ t \in Ticks
  /\ aPc[t] = "ping"
  /\ "ok" \in Outcomes(aSock[t])
  /\ LET c == aEp[t]
         rq == Consumed(replyQ, aSock[t])
     IN /\ isConnected' = TRUE
        /\ retryCount' = Incremented(RetryAfterSuccess)
        /\ aPc' = [aPc EXCEPT ![t] = "idle"]
        /\ aSock' = [aSock EXCEPT ![t] = 0]
        /\ UNCHANGED <<opts, name, dialed, subVars, batch, got, wrote, isClosed, maxRetryCount, closer, executor, closeResult>>
        /\ IF c # 0
             THEN /\ Resubmit(c, "loop", sockState)
                  /\ aEp' = Detached(aEp, c)
                  /\ Sockets(sockState, ResubmitQ(c, rq, sockState))
             ELSE /\ aEp' = aEp
                  /\ UNCHANGED cmdVars
                  /\ Sockets(sockState, rq)

\* That PING fails: the catch block swallows the error ("retrying") and the
\* finally block counts the attempt.
PingFail(t) ==
  /\ t \in Ticks
  /\ aPc[t] = "ping"
  /\ \E o \in Outcomes(aSock[t]) : o # "ok"
  /\ retryCount' = Incremented(retryCount)
  /\ aPc' = [aPc EXCEPT ![t] = "idle"]
  /\ aSock' = [aSock EXCEPT ![t] = 0]
  /\ aEp' = [aEp EXCEPT ![t] = 0]
  /\ UNCHANGED <<opts, name, dialed, subVars, batch, got, wrote, isConnected, isClosed, maxRetryCount, closer, executor,
                 cmdVars, closeResult>>
  /\ Sockets(sockState, Consumed(replyQ, aSock[t]))

\* ------------------------------------------------------- RedisImpl.close
\* this.connection?.close(), lines 77-79, on the RedisConnection.
Close ==
  /\ ClientExists
  /\ isClosed' = TRUE
  /\ isConnected' = FALSE
  /\ closeResult' = CloseOutcome
  /\ UNCHANGED <<opts, name, dialed, subVars, batch, got, wrote, maxRetryCount, retryCount, closer, executor, aPc, aEp,
                 status, exOf, reply, failKind, attempts, via>>
  /\ LET ss == CloseSock(sockState, closer)
     IN /\ aSock' = Live(aSock, ss)
        /\ cSock' = Live(cSock, ss)
        /\ Sockets(ss, replyQ)

\* ------------------------------------------------------------ environment
\* The transport fails after a command was sent and before its reply: the
\* peer resets or drops the connection.
Fault(s) ==
  /\ sockState[s] = "open"
  /\ \E c \in Cmds : status[c] \in {"sent", "resent"} /\ cSock[c] = s
  /\ UNCHANGED <<opts, name, dialed, subVars, batch, got, wrote, connVars, aPc, aEp, status, exOf, reply, failKind,
                 attempts, via, closeResult>>
  /\ LET ss == [sockState EXCEPT ![s] = "broken"]
     IN /\ aSock' = Live(aSock, ss)
        /\ cSock' = Live(cSock, ss)
        /\ Sockets(ss, replyQ)

Next ==
  \/ ConnectCall
  \/ \E a \in Acts : DialFail(a)
  \/ \E a \in Acts : DialOk(a)
  \/ \E a \in Acts : HandshakeOk(a)
  \/ \E a \in Acts : HandshakeFail(a)
  \/ \E c \in Cmds : Submit(c)
  \/ \E c \in Cmds : CmdOk(c)
  \/ \E c \in Cmds : CmdServerError(c)
  \/ \E c \in Cmds : CmdTransportError(c)
  \/ \E c \in Cmds : CmdReconnect(c)
  \/ \E c \in Cmds : ProbeOk(c)
  \/ \E c \in Cmds : ProbeFail(c)
  \/ \E c \in Cmds : TickFire(c)
  \/ \E t \in Ticks : PingOk(t)
  \/ \E t \in Ticks : PingFail(t)
  \/ Close
  \/ \E s \in Socks : Fault(s)

Spec == Init /\ [][Next]_vars

\* The same connection when the application also flushes pipelines and
\* transactions: the second submission is an exec, a pipeline or a
\* transaction of up to MaxBatch commands.
BatchOptions ==
  [password |-> TRUE, db |-> 0, maxRetryCount |-> 1,
   name |-> FALSE, port |-> Port("number", Num(DefaultPort), <<>>)]

InitBatch ==
  /\ opts = BatchOptions
  /\ name = FALSE
  /\ dialed = NoPort
  /\ isConnected = FALSE /\ isClosed = FALSE
  /\ maxRetryCount = 0 /\ retryCount = 0
  /\ closer = 0 /\ executor = 0
  /\ sockState = [s \in Socks |-> "free"]
  /\ replyQ = [s \in Socks |-> <<>>]
  /\ aPc = [a \in Acts |-> "idle"]
  /\ aSock = [a \in Acts |-> 0]
  /\ aEp = [a \in Acts |-> 0]
  /\ status = [c \in Cmds |-> "none"]
  /\ exOf = [c \in Cmds |-> 0]
  /\ cSock = [c \in Cmds |-> 0]
  /\ reply = [c \in Cmds |-> 0]
  /\ failKind = [c \in Cmds |-> "none"]
  /\ attempts = [c \in Cmds |-> 0]
  /\ batch \in [Cmds -> [kind : Kinds, n : 0..MaxBatch]]
  /\ \A c \in Cmds : batch[c].kind = "exec" => batch[c].n = 0
  /\ batch[1].kind = "exec"
  /\ got = [c \in Cmds |-> <<>>]
  /\ wrote = {}
  /\ via = [c \in Cmds |-> "none"]
  /\ in_pubsub_mode = FALSE
  /\ channels = {} /\ patterns = {}
  /\ subPending = NoSub
  /\ wire = <<>>
  /\ outcome = NoCommand
  /\ closeResult = "none"

NextBatch ==
  \/ Next
  \/ \E c \in Cmds : FlushRead(c)
  \/ \E c \in Cmds : FlushEmpty(c)

SpecBatch == InitBatch /\ [][NextBatch]_vars

\* The same connection with the timer and the I/O completions scheduled
\* fairly: a pending dial, handshake, probe, PING or command read completes
\* one way or the other, and an armed interval timer keeps firing.
InitFair == Init /\ opts = BatchOptions

Fairness ==
  /\ \A a \in Acts : WF_vars(DialOk(a) \/ DialFail(a))
  /\ \A a \in Acts : WF_vars(HandshakeOk(a) \/ HandshakeFail(a))
  /\ \A t \in Ticks : WF_vars(PingOk(t) \/ PingFail(t))
  /\ \A c \in Cmds : WF_vars(ProbeOk(c) \/ ProbeFail(c))
  /\ \A c \in Cmds : SF_vars(TickFire(c))

SpecFair == InitFair /\ [][Next]_vars /\ Fairness

\* The same connection when the application also calls quit().
InitQuit ==
  /\ opts = BatchOptions
  /\ name = FALSE
  /\ dialed = NoPort
  /\ isConnected = FALSE /\ isClosed = FALSE
  /\ maxRetryCount = 0 /\ retryCount = 0
  /\ closer = 0 /\ executor = 0
  /\ sockState = [s \in Socks |-> "free"]
  /\ replyQ = [s \in Socks |-> <<>>]
  /\ aPc = [a \in Acts |-> "idle"]
  /\ aSock = [a \in Acts |-> 0]
  /\ aEp = [a \in Acts |-> 0]
  /\ status = [c \in Cmds |-> "none"]
  /\ exOf = [c \in Cmds |-> 0]
  /\ cSock = [c \in Cmds |-> 0]
  /\ reply = [c \in Cmds |-> 0]
  /\ failKind = [c \in Cmds |-> "none"]
  /\ attempts = [c \in Cmds |-> 0]
  /\ batch \in [Cmds -> [kind : Single, n : {0}]]
  /\ \E c \in Cmds : batch[c].kind = "quit"
  /\ got = [c \in Cmds |-> <<>>]
  /\ wrote = {}
  /\ via = [c \in Cmds |-> "none"]
  /\ in_pubsub_mode = FALSE
  /\ channels = {} /\ patterns = {}
  /\ subPending = NoSub
  /\ wire = <<>>
  /\ outcome = NoCommand
  /\ closeResult = "none"

NextQuit ==
  \/ Next
  \/ \E c \in Cmds : QuitOk(c)
  \/ \E c \in Cmds : QuitServerError(c)
  \/ \E c \in Cmds : QuitTransportError(c)

SpecQuit == InitQuit /\ [][NextQuit]_vars

\* The exported connect() alone, called with every shape of options.
InitConnect ==
  /\ opts \in ConnectOptionSets
  /\ name = FALSE
  /\ dialed = NoPort
  /\ isConnected = FALSE /\ isClosed = FALSE
  /\ maxRetryCount = 0 /\ retryCount = 0
  /\ closer = 0 /\ executor = 0
  /\ sockState = [s \in Socks |-> "free"]
  /\ replyQ = [s \in Socks |-> <<>>]
  /\ aPc = [a \in Acts |-> "idle"]
  /\ aSock = [a \in Acts |-> 0]
  /\ aEp = [a \in Acts |-> 0]
  /\ status = [c \in Cmds |-> "none"]
  /\ exOf = [c \in Cmds |-> 0]
  /\ cSock = [c \in Cmds |-> 0]
  /\ reply = [c \in Cmds |-> 0]
  /\ failKind = [c \in Cmds |-> "none"]
  /\ attempts = [c \in Cmds |-> 0]
  /\ batch = [c \in Cmds |-> [kind |-> "exec", n |-> 0]]
  /\ got = [c \in Cmds |-> <<>>]
  /\ wrote = {}
  /\ via = [c \in Cmds |-> "none"]
  /\ in_pubsub_mode = FALSE
  /\ channels = {} /\ patterns = {}
  /\ subPending = NoSub
  /\ wire = <<>>
  /\ outcome = NoCommand
  /\ closeResult = "none"

NextConnect ==
  \/ ConnectCall
  \/ DialFail(0)
  \/ DialOk(0)
  \/ HandshakeOk(0)
  \/ HandshakeFail(0)

SpecConnect == InitConnect /\ [][NextConnect]_vars

\* ------------------------------------------------ subscriptions (4.5)
\* The connection, its commands and its timer callbacks.
restVars == <<opts, name, dialed, connVars, sockState, replyQ, actVars, cmdVars, batch, got, wrote, closeResult>>

\* RedisImpl.subscribe(...channels), line 963: SUBSCRIBE is written.
Subscribe(xs) ==
  /\ ClientExists
  /\ xs # {}
  /\ subPending = NoSub
  /\ Len(wire) < MaxWire
  /\ wire' = Append(wire, "SUBSCRIBE")
  /\ subPending' = [k |-> "SUBSCRIBE", x |-> xs]
  /\ UNCHANGED <<in_pubsub_mode, channels, patterns, outcome, restVars>>

\* RedisImpl.psubscribe(...patterns), line 967: PSUBSCRIBE is written.
PSubscribe(xs) ==
  /\ ClientExists
  /\ xs # {}
  /\ subPending = NoSub
  /\ Len(wire) < MaxWire
  /\ wire' = Append(wire, "PSUBSCRIBE")
  /\ subPending' = [k |-> "PSUBSCRIBE", x |-> xs]
  /\ UNCHANGED <<in_pubsub_mode, channels, patterns, outcome, restVars>>

\* unsubscribe(...channels) of the subscription; no channel means all.
Unsubscribe(xs) ==
  /\ in_pubsub_mode
  /\ subPending = NoSub
  /\ Len(wire) < MaxWire
  /\ wire' = Append(wire, "UNSUBSCRIBE")
  /\ subPending' = [k |-> "UNSUBSCRIBE", x |-> IF xs = {} THEN Names ELSE xs]
  /\ UNCHANGED <<in_pubsub_mode, channels, patterns, outcome, restVars>>

\* punsubscribe(...patterns) of the subscription; no pattern means all.
PUnsubscribe(xs) ==
  /\ in_pubsub_mode
  /\ subPending = NoSub
  /\ Len(wire) < MaxWire
  /\ wire' = Append(wire, "PUNSUBSCRIBE")
  /\ subPending' = [k |-> "PUNSUBSCRIBE", x |-> IF xs = {} THEN Names ELSE xs]
  /\ UNCHANGED <<in_pubsub_mode, channels, patterns, outcome, restVars>>

\* The first successful SUBSCRIBE or PSUBSCRIBE sets in_pubsub_mode.
ModeAfterSubscribe == TRUE

\* Variant: the mode is left as soon as no channel is subscribed, whatever
\* the patterns.
ModeIgnoringPatterns(ch, pt) == IF ch = {} THEN FALSE ELSE in_pubsub_mode

\* When both membership sets become empty the mode is cleared.
ModeAfterUnsubscribe(ch, pt) == IF ch = {} /\ pt = {} THEN FALSE ELSE in_pubsub_mode

\* The (un)subscription is acknowledged: the membership sets follow.
SubReply ==
  /\ subPending # NoSub
  /\ subPending' = NoSub
  /\ LET ch == CASE subPending.k = "SUBSCRIBE" -> channels \cup subPending.x
                  [] subPending.k = "UNSUBSCRIBE" -> channels \ subPending.x
                  [] OTHER -> channels
         pt == CASE subPending.k = "PSUBSCRIBE" -> patterns \cup subPending.x
                  [] subPending.k = "PUNSUBSCRIBE" -> patterns \ subPending.x
                  [] OTHER -> patterns
     IN /\ channels' = ch
        /\ patterns' = pt
        /\ in_pubsub_mode' = IF subPending.k \in {"SUBSCRIBE", "PSUBSCRIBE"}
                                THEN ModeAfterSubscribe
                                ELSE ModeAfterUnsubscribe(ch, pt)
  /\ UNCHANGED <<wire, outcome, restVars>>

\* The (un)subscription fails: nothing is subscribed or unsubscribed.
SubError ==
  /\ subPending # NoSub
  /\ subPending' = NoSub
  /\ UNCHANGED <<in_pubsub_mode, channels, patterns, wire, outcome, restVars>>

\* Variant: the executor lets every command through.
AdmittedAlways(k) == TRUE

\* The executor's pre-flight test of a command.
Admitted(k) == ~in_pubsub_mode \/ k \in PubSubCommands

\* A command submitted through exec: publish (line 959-961), get, ping.
ExecCommand(k) ==
  /\ ClientExists
  /\ IF Admitted(k)
       THEN /\ Len(wire) < MaxWire
            /\ wire' = Append(wire, k)
            /\ outcome' = [k |-> k, r |-> "sent"]
       ELSE /\ wire' = wire
            /\ outcome' = [k |-> k, r |-> "rejected"]
  /\ UNCHANGED <<in_pubsub_mode, channels, patterns, subPending, restVars>>

\* A client connected without password, database or retries.
InitPubSub ==
  /\ opts = [password |-> FALSE, db |-> 0, maxRetryCount |-> 0,
             name |-> FALSE, port |-> Port("number", Num(DefaultPort), <<>>)]
  /\ name = FALSE
  /\ dialed = Num(DefaultPort)
  /\ isConnected = TRUE /\ isClosed = FALSE
  /\ maxRetryCount = 0 /\ retryCount = 0
  /\ closer = 1 /\ executor = 1
  /\ sockState = [s \in Socks |-> IF s = 1 THEN "open" ELSE "free"]
  /\ replyQ = [s \in Socks |-> <<>>]
  /\ aPc = [a \in Acts |-> IF a = 0 THEN "done" ELSE "idle"]
  /\ aSock = [a \in Acts |-> 0]
  /\ aEp = [a \in Acts |-> 0]
  /\ status = [c \in Cmds |-> "none"]
  /\ exOf = [c \in Cmds |-> 0]
  /\ cSock = [c \in Cmds |-> 0]
  /\ reply = [c \in Cmds |-> 0]
  /\ failKind = [c \in Cmds |-> "none"]
  /\ attempts = [c \in Cmds |-> 0]
  /\ batch = [c \in Cmds |-> [kind |-> "exec", n |-> 0]]
  /\ got = [c \in Cmds |-> <<>>]
  /\ wrote = {}
  /\ via = [c \in Cmds |-> "none"]
  /\ in_pubsub_mode = FALSE
  /\ channels = {} /\ patterns = {}
  /\ subPending = NoSub
  /\ wire = <<>>
  /\ outcome = NoCommand
  /\ closeResult = "none"

NextPubSub ==
  \/ \E xs \in SUBSET Names : Subscribe(xs)
  \/ \E xs \in SUBSET Names : PSubscribe(xs)
  \/ \E xs \in SUBSET Names : Unsubscribe(xs)
  \/ \E xs \in SUBSET Names : PUnsubscribe(xs)
  \/ SubReply
  \/ SubError
  \/ \E k \in {"PUBLISH", "GET", "PING"} : ExecCommand(k)

SpecPubSub == InitPubSub /\ [][NextPubSub]_vars

\* ------------------------------------------- command wrappers (RedisImpl)
\* An optional number of an options object: left out, or given with value v.
OptNums == {[given |-> FALSE, v |-> 0], [given |-> TRUE, v |-> 0], [given |-> TRUE, v |-> 5]}

\* if (x) on an optional number: undefined and 0 are falsy.
Truthy(x) == x.given /\ x.v # 0

\* opts?: { ex?, px?, mode? } of set; has = FALSE is no opts argument,
\* mode = "" is no mode.
SetOpts ==
  {[has |-> FALSE, ex |-> [given |-> FALSE, v |-> 0], px |-> [given |-> FALSE, v |-> 0], mode |-> ""]}
    \cup [has : {TRUE}, ex : OptNums, px : OptNums, mode : {"", "NX", "XX"}]

\* The args of set, lines 1135-1145.
SetArgs(key, value, o) ==
  <<key, value>>
    \o (IF o.has /\ Truthy(o.ex) THEN <<"EX", ToString(o.ex.v)>>
        ELSE IF o.has /\ Truthy(o.px) THEN <<"PX", ToString(o.px.v)>>
        ELSE <<>>)
    \o (IF o.has /\ o.mode # "" THEN <<o.mode>> ELSE <<>>)

\* opts?: { withScore?, offset?, count? } of the range wrappers; withScore
\* is "absent", "false" or "true".
ZrangeOpts ==
  {[has |-> FALSE, withScore |-> "absent", offset |-> [given |-> FALSE, v |-> 0],
    count |-> [given |-> FALSE, v |-> 0]]}
    \cup [has : {TRUE}, withScore : {"absent", "false", "true"}, offset : OptNums, count : OptNums]

\* pushZrangeOpts, lines 1943-1960.
pushZrangeOpts(args, o) ==
  args
    \o (IF o.has /\ o.withScore = "true" THEN <<"WITHSCORES">> ELSE <<>>)
    \o (IF o.has /\ o.offset.given /\ o.count.given
          THEN <<"LIMIT", ToString(o.offset.v), ToString(o.count.v)>>
          ELSE <<>>)

\* The bounds the reverse-range wrappers are called with.
Maxes == {"z", "y"}
Mins == {"a", "b"}

\* A wrapper hands its tokens to exec*Reply: they go on the wire.
Forwarded(tokens, call) ==
  /\ Len(wire) < MaxCalls
  /\ wire' = Append(wire, tokens)
  /\ outcome' = call
  /\ UNCHANGED <<in_pubsub_mode, channels, patterns, subPending, restVars>>

\* set(key, value, opts), lines 1130-1147.
Set(key, value, o) ==
  /\ ClientExists
  /\ Forwarded(<<"SET">> \o SetArgs(key, value, o), [k |-> "SET", r |-> "sent", o |-> o])

\* zrevrangebylex(key, max, min, opts), lines 1917-1928: the args are
\* [key, min, max].
zrevrangebylex(key, max, min, o) ==
  /\ ClientExists
  /\ Forwarded(<<"ZREVRANGEBYLEX">> \o pushZrangeOpts(<<key, min, max>>, o),
               [k |-> "ZREVRANGEBYLEX", r |-> "sent", max |-> max, min |-> min, o |-> o])

\* zrevrangebyscore(key, max, min, opts), lines 1994-2006: the args are
\* [key, max, min].
zrevrangebyscore(key, max, min, o) ==
  /\ ClientExists
  /\ Forwarded(<<"ZREVRANGEBYSCORE">> \o pushZrangeOpts(<<key, max, min>>, o),
               [k |-> "ZREVRANGEBYSCORE", r |-> "sent", max |-> max, min |-> min, o |-> o])

\* Variant: monitor() submits MONITOR like any other command.
MonitorSubmits ==
  /\ ClientExists
  /\ Len(wire) < MaxCalls
  /\ wire' = Append(wire, <<"MONITOR">>)
  /\ outcome' = [k |-> "MONITOR", r |-> "sent"]
  /\ UNCHANGED <<in_pubsub_mode, channels, patterns, subPending, restVars>>

\* monitor(), lines 881-883: throw new Error("not supported yet").
Monitor ==
  /\ ClientExists
  /\ outcome' = [k |-> "MONITOR", r |-> "raised"]
  /\ UNCHANGED <<in_pubsub_mode, channels, patterns, subPending, wire, restVars>>

\* sync(), lines 1307-1309: throw new Error("not implemented").
Sync ==
  /\ ClientExists
  /\ outcome' = [k |-> "SYNC", r |-> "raised"]
  /\ UNCHANGED <<in_pubsub_mode, channels, patterns, subPending, wire, restVars>>

NextClient ==
  \/ \E o \in SetOpts : Set("k", "v", o)
  \/ \E max \in Maxes, min \in Mins, o \in ZrangeOpts : zrevrangebylex("k", max, min, o)
  \/ \E max \in Maxes, min \in Mins, o \in ZrangeOpts : zrevrangebyscore("k", max, min, o)
  \/ Monitor
  \/ Sync

\* The wrappers called on a connected client.
SpecClient == InitPubSub /\ [][NextClient]_vars

\* ----------------------------------------------------------- sanity
RECURSIVE Outstanding(_, _)
Outstanding(s, n) ==
  IF n = 0 THEN 0
  ELSE Outstanding(s, n - 1) + (IF cSock[n] = s THEN Remaining(n) ELSE 0)

TypeOK ==
  /\ isConnected \in BOOLEAN /\ isClosed \in BOOLEAN
  /\ retryCount \in 0..(MaxRetryOpt + MaxPending + MaxCmds)
  /\ closer \in {0} \cup Socks /\ executor \in {0} \cup Execs
  /\ \A s \in Socks : sockState[s] \in {"free", "open", "broken", "closed"}
  /\ \A s \in Socks : s # closer => sockState[s] \in {"free", "open"}
  /\ \A c \in Cmds : status[c] \in {"none", "failed", "done"} \cup Pending
  /\ \A c \in Cmds : attempts[c] \in 0..MaxAttempts
  /\ \A c \in Cmds : via[c] \in {"none", "probe", "loop"}
  /\ closeResult \in {"none", "closed", "already", "raised"}
  /\ wrote \subseteq {"AUTH", "SELECT"}
  /\ name \in BOOLEAN /\ dialed.kind \in {"none", "int"}
  /\ in_pubsub_mode \in BOOLEAN /\ channels \subseteq Names /\ patterns \subseteq Names
  /\ Len(wire) <= MaxWire
  /\ \A c \in Cmds : cSock[c] # 0 => sockState[cSock[c]] = "open"
  /\ \A a \in Acts : aSock[a] # 0 => sockState[aSock[a]] = "open"
  /\ \A a \in Acts : aPc[a] = "dial" => \E s \in Socks : Held(sockState, 0, aSock, cSock)[s] = "free"
  /\ \A c \in Cmds : batch[c].kind \in Kinds \cup Single /\ batch[c].n \in 0..MaxBatch /\ Remaining(c) >= 0
  /\ \A s \in Socks : Len(replyQ[s]) =
       Cardinality({a \in Acts : aSock[a] = s}) + Outstanding(s, MaxCmds)

\* ================================================================ claims

\* C1: at any instant at most one request/reply exchange is in flight on a
\* transport: of the commands issued through exec and the AUTH, SELECT and
\* PING exchanges of connect and reconnect, no two are between "written" and
\* "reply read" on the same socket at the same time.
OneExchangeInFlight ==
  \A s \in Socks :
    Cardinality({a \in Acts : aSock[a] = s}) + Cardinality({c \in Cmds : cSock[c] = s}) <= 1

\* C2: commands are written in the order they were accepted, replies are
\* decoded in that same order, and every caller is handed the reply to its
\* own command.
FifoPairing ==
  /\ \A a, b \in Cmds :
       a < b =>
         /\ status[b] \notin {"none", "queued"} => status[a] \notin {"none", "queued"}
         /\ (status[b] = "done" \/ failKind[b] = "server") => status[a] \in {"done", "failed"}
  /\ \A c \in Cmds : status[c] = "done" => reply[c] = c

\* C3: close() may be called in any state of the connection and any number
\* of times: it never raises, it leaves isClosed = true and isConnected =
\* false with the socket closed, and on a connection that is closed already
\* it changes nothing.
CloseIdempotent ==
  [][Close =>
       /\ isClosed' /\ ~isConnected'
       /\ closeResult' \in {"closed", "already"}
       /\ sockState'[closer'] = "closed"
       /\ (isClosed /\ ~isConnected /\ sockState[closer] = "closed") =>
            UNCHANGED <<opts, name, dialed, subVars, batch, got, wrote, connVars, sockState, replyQ, actVars, cmdVars>>]_vars

\* C3 happens: close() has been called on a connection whose socket was
\* closed already, and swallowed the BadResource.
CloseRepeated ==
  closeResult = "already" /\ isClosed /\ ~isConnected /\ sockState[closer] = "closed"

\* C4: a connect dials, then AUTH, then SELECT, and only then marks the
\* connection connected: isConnected is not true while an AUTH or SELECT
\* that applies is still outstanding, and AUTH is never sent after SELECT.
ConnectedAfterHandshake ==
  /\ [](\A a \in Acts : aPc[a] \in {"auth", "select"} => ~isConnected)
  /\ [][\A a \in Acts : aPc'[a] = "auth" => aPc[a] \in {"dial", "auth"}]_vars

\* C5: when AUTH or SELECT fails during a connect, the connection is closed
\* (isClosed, not isConnected, socket closed) at that very step; the
\* exported connect() then throws, so no client exists, and the connection
\* stays that way.
HandshakeFailureCloses ==
  /\ [](aPc[0] = "failed" /\ closer # 0 =>
          isClosed /\ ~isConnected /\ sockState[closer] = "closed" /\ ~ClientExists)
  /\ [][\A a \in Acts :
          aPc[a] \in {"auth", "select"} /\ aPc'[a] \in {"failed", "idle"} =>
            /\ isClosed' /\ ~isConnected' /\ sockState'[closer'] = "closed"
            /\ a = 0 => ~ClientExists']_vars

\* C5 happens: the exported connect() dialled and then threw on AUTH or
\* SELECT.
HandshakeFailed ==
  aPc[0] = "failed" /\ closer # 0 /\ sockState[closer] = "closed" /\ isClosed

\* C6: when the PING probe of reconnect() succeeds, the call only marks the
\* connection connected and resolves: the socket is not closed, nothing is
\* dialled, and the executor, the closed flag and the retry counter are
\* what they were.
ProbeSuccessOnlyMarks ==
  [][\A c \in Cmds :
       status[c] = "probe" /\ status'[c] = "resent" =>
         /\ isConnected' /\ via'[c] = "probe"
         /\ closer' = closer /\ sockState'[closer] = sockState[closer]
         /\ executor' = executor /\ retryCount' = retryCount /\ isClosed' = isClosed
         /\ aPc' = aPc]_vars

\* C6 happens: a reconnect() call has resolved through its probe.
ProbeSucceeded ==
  \E c \in Cmds : via[c] = "probe" /\ status[c] = "resent" /\ isConnected /\ sockState[closer] = "open"

\* C7 as stated: a failed probe closes the connection there and then; the
\* timer callbacks then close and connect until one succeeds (resolve,
\* isConnected) or retryCount > maxRetryCount ('Could not reconnect').
ProbeFailureCloses ==
  [][\A c \in Cmds :
       /\ status[c] = "probe" /\ status'[c] = "loop" =>
            isClosed' /\ ~isConnected' /\ sockState'[closer'] = "closed"
       /\ status[c] = "loop" /\ status'[c] = "resent" => isConnected'
       /\ status[c] = "loop" /\ status'[c] = "failed" =>
            retryCount > maxRetryCount /\ failKind'[c] = "reconnect"]_vars

\* C7, amended: a failed probe marks the connection disconnected without
\* closing it and arms the timer.  Every timer callback closes the
\* connection and starts a connect.  The call resolves when a callback's
\* connect and PING succeed (isConnected), and it is rejected with 'Could
\* not reconnect' by exactly the callbacks that fire with retryCount >
\* maxRetryCount.
RetryLoop ==
  [][/\ \A c \in Cmds :
          /\ status[c] = "probe" /\ status'[c] = "loop" =>
               /\ ~isConnected' /\ isClosed' = isClosed
               /\ closer' = closer /\ sockState'[closer] = sockState[closer]
               /\ aPc' = aPc
          /\ status[c] = "loop" /\ status'[c] = "resent" =>
               /\ isConnected' /\ via'[c] = "loop"
               /\ \E t \in Ticks : aPc[t] = "ping" /\ aPc'[t] = "idle"
          /\ status[c] = "loop" /\ status'[c] = "failed" =>
               /\ retryCount > maxRetryCount /\ failKind'[c] = "reconnect"
               /\ \E t \in Ticks : aPc[t] = "idle" /\ aPc'[t] = "dial"
     /\ \A t \in Ticks :
          aPc[t] = "idle" /\ aPc'[t] = "dial" =>
            /\ isClosed' /\ ~isConnected' /\ sockState'[closer'] = "closed"
            /\ retryCount > maxRetryCount =>
                 \E c \in Cmds : status[c] = "loop" /\ status'[c] = "failed"
            /\ retryCount <= maxRetryCount =>
                 \A c \in Cmds : status[c] = "loop" => status'[c] = "loop"]_vars

\* C7 happens: one reconnect() call has resolved through the retry loop and
\* another has been rejected with 'Could not reconnect'.
RetryLoopEnded ==
  \E c, d \in Cmds : via[c] = "loop" /\ status[d] = "failed" /\ failKind[d] = "reconnect"

\* C8: one reconnect() call makes at most maxRetryCount connect attempts.
AtMostMaxRetries ==
  \A c \in Cmds : attempts[c] <= maxRetryCount

\* C9: right after a reconnect() call resolves, through the probe or
\* through the retry loop, retryCount is 0.
RetryCountReset ==
  [][\A c \in Cmds :
       status[c] \in {"probe", "loop"} /\ status'[c] = "resent" => retryCount' = 0]_vars

\* C10: with maxRetryCount absent or 0 no reconnect is attempted and a
\* transport failure is surfaced as such; with maxRetryCount positive the
\* command is sent once more after reconnect() has resolved, and the reply
\* to that resubmission is what its caller gets.
RetryOncePerFailure ==
  \A c \in Cmds :
    /\ opts.maxRetryCount = 0 =>
         /\ via[c] = "none" /\ status[c] \notin {"probe", "loop", "resent"}
         /\ failKind[c] \in {"none", "server", "transport"}
    /\ status[c] = "resent" => via[c] # "none" /\ opts.maxRetryCount > 0
    /\ status[c] = "done" /\ via[c] # "none" => reply[c] = c

\* C11: when a reconnect() call that re-dialled resolves, AUTH (password
\* configured) and SELECT (non-zero db configured) have been written on the
\* new socket before the failed command is written on it again, and the
\* command had not been resubmitted before.
ReauthBeforeResubmit ==
  [][\A c \in Cmds :
       status[c] = "loop" /\ status'[c] = "resent" /\ cSock'[c] # 0 =>
         /\ opts.password => "AUTH" \in wrote
         /\ opts.db # 0 => "SELECT" \in wrote
         /\ via[c] = "none"]_vars

\* C12: an Error reply fails the command that drew it and nothing else: no
\* reconnect and no resubmission, no dial, the flags and the socket of the
\* connection are what they were, no other command is settled, and the
\* command queued behind it is dispatched.
ServerErrorIsLocal ==
  [][\A c \in Cmds :
       status[c] \in {"sent", "resent"} /\ status'[c] = "failed" /\ failKind'[c] = "server" =>
         /\ isConnected' = isConnected /\ isClosed' = isClosed
         /\ closer' = closer /\ sockState'[closer] = sockState[closer]
         /\ executor' = executor /\ retryCount' = retryCount /\ aPc' = aPc
         /\ \A d \in Cmds \ {c} :
              /\ failKind'[d] = failKind[d] /\ reply'[d] = reply[d]
              /\ status'[d] # status[d] => d = NextOf(c) /\ status'[d] = "sent"
         /\ NextOf(c) # 0 => status'[NextOf(c)] = "sent"]_vars

\* C12 happens: a command got an Error reply, the command queued behind it
\* went out afterwards, and the connection is still open.
ServerErrorSurfaced ==
  \E c, d \in Cmds :
    /\ c < d /\ failKind[c] = "server" /\ status[d] \in {"sent", "done"}
    /\ exOf[d] = executor
    /\ isConnected /\ ~isClosed /\ sockState[closer] = "open"

\* C13: pipeline().flush() on N enqueued commands returns a list of exactly
\* N replies in submission order: reply i is the reply to enqueued command
\* i, for every N >= 0.
PipelineReplies ==
  \A c \in Cmds :
    batch[c].kind = "pipeline" /\ status[c] = "done" => got[c] = Enqueued(c)

\* C14: tx().flush() on N enqueued commands puts on the wire exactly MULTI,
\* then the N commands in enqueue order, then EXEC, with nothing else in
\* between, and leaves what was on the wire before as it was.
TxWireShape ==
  [][\A c \in Cmds :
       batch[c].kind = "tx" /\ status[c] \in {"none", "queued"} /\ status'[c] = "sent"
         /\ cSock'[c] # 0 =>
         LET w == replyQ'[cSock'[c]]
             n == batch[c].n
             off == Len(w) - (n + 2)
             before == replyQ[cSock'[c]]
         IN /\ off >= 0
            /\ w[off + 1] = BatchTag("MULTI", c, 0)
            /\ \A i \in 1..n : w[off + 1 + i] = BatchTag("CMD", c, i)
            /\ w[off + n + 2] = BatchTag("EXEC", c, 0)
            /\ \/ SubSeq(w, 1, off) = before
               \/ before # <<>> /\ SubSeq(w, 1, off) = Tail(before)]_vars

TxOnWire ==
  \E c \in Cmds :
    /\ batch[c].kind = "tx" /\ batch[c].n = 2
    /\ status[c] = "sent" /\ cSock[c] # 0
    /\ Len(replyQ[cSock[c]]) >= 4

\* C15: while a pipeline or transaction flush has written its batch and is
\* reading its replies, no command submitted through exec is between written
\* and reply read on the same transport.
FlushExclusive ==
  \A c, d \in Cmds :
    /\ batch[c].kind # "exec" /\ status[c] = "sent" /\ cSock[c] # 0
    /\ batch[d].kind = "exec"
    => cSock[d] # cSock[c]

\* C16: while the connection is in pub/sub mode, a command other than
\* SUBSCRIBE, UNSUBSCRIBE, PSUBSCRIBE, PUNSUBSCRIBE, PING and QUIT is
\* rejected locally and never reaches the wire.
PubSubExclusive ==
  [][in_pubsub_mode =>
       /\ wire' # wire => wire'[Len(wire')] \in PubSubCommands
       /\ outcome' # outcome /\ outcome'.k \notin PubSubCommands =>
            outcome'.r = "rejected" /\ wire' = wire]_vars

PublishRejected ==
  /\ in_pubsub_mode
  /\ outcome = [k |-> "PUBLISH", r |-> "rejected"]
  /\ wire = <<"SUBSCRIBE">>

\* C17: the connection is in pub/sub mode exactly when a channel or a
\* pattern is subscribed.
ModeIffSubscribed ==
  in_pubsub_mode <=> channels \cup patterns # {}

ModeLeft ==
  /\ ~in_pubsub_mode /\ channels = {} /\ patterns = {}
  /\ wire = <<"SUBSCRIBE", "UNSUBSCRIBE">>
  /\ subPending = NoSub

\* C18: at connect a port given as a number is used as is, a port given as
\* a numeric string is parsed to that number, a missing port is 6379, and
\* every other shape, a string that is not wholly a decimal numeral
\* included, is an input error before any dial is attempted.
PortParsing ==
  aPc[0] # "idle" =>
    LET p == opts.port
        val[i \in 0..Len(p.s)] == IF i = 0 THEN 0 ELSE 10 * val[i - 1] + DigitOf(p.s[i])
    IN CASE p.t = "number" -> dialed = p.n
         [] p.t = "undefined" -> dialed = Num(DefaultPort)
         [] p.t = "string" /\ p.s # <<>> /\ (\A i \in 1..Len(p.s) : p.s[i] \in Digits) ->
              dialed = Num(val[Len(p.s)])
         [] OTHER -> dialed = NoPort /\ aPc[0] = "failed"

\* C19: when the connect option name is set, CLIENT SETNAME is sent as part
\* of connecting.
NameSurfaced ==
  ClientExists /\ opts.name => "SETNAME" \in wrote

\* C20: connect sends AUTH if and only if a password is configured and
\* SELECT if and only if db is set and non-zero; with neither it puts no
\* command on the wire.
HandshakeCommands ==
  LET expected == (IF opts.password THEN {"AUTH"} ELSE {})
                    \cup (IF opts.db # 0 THEN {"SELECT"} ELSE {})
  IN /\ wrote \subseteq expected
     /\ ClientExists => wrote = expected
     /\ \A s \in Socks : \A i \in 1..Len(replyQ[s]) : replyQ[s][i].k \in expected

AuthOnly ==
  /\ ClientExists
  /\ opts.password /\ opts.db = 0
  /\ wrote = {"AUTH"}

\* C22: isConnected and isClosed are never both true.
NotConnectedAndClosed == ~(isConnected /\ isClosed)

\* C23: the step at which reconnect() fails with 'Could not reconnect'
\* starts no dial, and leaves the connection closed.
NoDialAfterGivingUp ==
  [][\A c \in Cmds :
       status[c] = "loop" /\ status'[c] = "failed" /\ failKind'[c] = "reconnect" =>
         /\ \A t \in Ticks : aPc'[t] = "dial" => aPc[t] = "dial"
         /\ isClosed' /\ ~isConnected']_vars

\* C24: of one reconnect() call's retry loop at most one close-and-connect
\* attempt is in progress at a time.
OneAttemptAtATime ==
  \A c \in Cmds : Cardinality({t \in Ticks : aPc[t] # "idle" /\ aEp[t] = c}) <= 1

\* C25: reconnect() on a client the user has closed fails at once: it sends
\* no PING and starts no retry loop.
ClosedStaysClosed ==
  [][\A c \in Cmds :
       closeResult # "none" /\ isClosed /\ status[c] = "sent" =>
         status'[c] \notin {"probe", "loop"}]_vars

\* C26: every call of reconnect() eventually resolves or rejects.
ReconnectSettles ==
  \A c \in Cmds : (status[c] \in {"probe", "loop"}) ~> (status[c] \notin {"probe", "loop"})

ReconnectRejected ==
  \E c \in Cmds :
    /\ status[c] = "failed" /\ failKind[c] = "reconnect"
    /\ retryCount > maxRetryCount
    /\ \A t \in Ticks : aPc[t] = "idle"

\* C27: when the promise of quit() settles, by success or by failure, the
\* connection has been closed: isClosed is true, isConnected is false and
\* its socket is not open.
QuitCloses ==
  [][\A c \in Cmds :
       batch[c].kind = "quit" /\ status[c] \notin {"done", "failed"}
         /\ status'[c] \in {"done", "failed"} =>
         isClosed' /\ ~isConnected' /\ ~Reaches(sockState', closer')]_vars

QuitFailed ==
  \E c \in Cmds :
    /\ batch[c].kind = "quit" /\ status[c] = "failed" /\ failKind[c] = "server"
    /\ isClosed /\ ~isConnected /\ sockState[closer] = "closed"

\* C21: monitor() and sync() raise an error, put nothing on the wire and
\* leave the connection state and the request queue unchanged.
UnsupportedRaise ==
  [][outcome' # outcome /\ outcome'.k \in {"MONITOR", "SYNC"} =>
       /\ outcome'.r = "raised"
       /\ wire' = wire
       /\ UNCHANGED <<in_pubsub_mode, channels, patterns, subPending, restVars>>]_vars

MonitorRaised ==
  /\ outcome = [k |-> "MONITOR", r |-> "raised"]
  /\ Len(wire) = 1

\* C28: set(key, value, opts) sends key, value, then EX ex when ex is
\* given, otherwise PX px when px is given, then the mode when given, and
\* nothing else.
SetEncoding ==
  outcome.k = "SET" =>
    LET o == outcome.o
    IN wire[Len(wire)] =
         <<"SET", "k", "v">>
           \o (IF o.has /\ o.ex.given THEN <<"EX", ToString(o.ex.v)>>
               ELSE IF o.has /\ o.px.given THEN <<"PX", ToString(o.px.v)>>
               ELSE <<>>)
           \o (IF o.has /\ o.mode # "" THEN <<o.mode>> ELSE <<>>)

\* C29: zrevrangebylex and zrevrangebyscore send key, max, min in the order
\* of their parameters, then WITHSCORES and LIMIT offset count when given.
ReverseRangeOrder ==
  outcome.k \in {"ZREVRANGEBYLEX", "ZREVRANGEBYSCORE"} =>
    LET o == outcome.o
    IN wire[Len(wire)] =
         <<outcome.k, "k", outcome.max, outcome.min>>
           \o (IF o.has /\ o.withScore = "true" THEN <<"WITHSCORES">> ELSE <<>>)
           \o (IF o.has /\ o.offset.given /\ o.count.given
                 THEN <<"LIMIT", ToString(o.offset.v), ToString(o.count.v)>>
                 ELSE <<>>)

====
